---- MODULE Spec2Model ----
(***************************************************************************)
(* A-Maze-ing: the maze carving generator (src/src/mazegen/generator.py),  *)
(* the BFS solvers (src/src/solver/hex_writer.py, pathfinder.py), the      *)
(* build_maze / regenerate glue (src/a_maze_ing.py) and the interactive    *)
(* loop (src/src/display.py).                                              *)
(*                                                                         *)
(* A cell is the pair <<x, y>>; a grid is a function from the cells of a   *)
(* width x height rectangle to 4-bit wall masks (grid[y][x] in the code). *)
(***************************************************************************)
EXTENDS Integers, Sequences, FiniteSets, TLC

VARIABLES
    width, height,          \* config["WIDTH"], config["HEIGHT"]
    entry, exit_pt,         \* config["ENTRY"], config["EXIT"]
    pc,                     \* position of the single thread of control
    caller,                 \* who called build_maze: "main", "regenerate", "client"
    seed,                   \* MazeGenerator.seed of the generator in use
    grid,                   \* MazeGenerator.grid
    patern_cells,           \* MazeGenerator.patern_cells
    visited, stack,         \* locals of generate()
    rng,                    \* state of the module-level `random` generator
    main_grid, main_path,   \* main()'s grid, path (captured by regenerate)
    current_grid, current_path, show_path, colour_index,  \* run_display locals
    calls,                  \* number of build_maze calls started so far
    first_grid,             \* history: seed -> first grid a generate() with it returned
    io_ok,                  \* whether the last write_maze_file could write its file
    bfs_path,               \* what the last solve_bfs call returned
    pf_result,              \* how the last Pathfinder.solve call ended
    choice,                 \* run_display: the last input line, stripped
    colour_presses          \* history: how often choice "3" was handled

vars == <<width, height, entry, exit_pt, pc, caller, seed, grid, patern_cells,
          visited, stack, rng, main_grid, main_path, current_grid,
          current_path, show_path, colour_index, calls, first_grid, io_ok,
          bfs_path, pf_result, choice, colour_presses>>

cfgVars == <<width, height>>
endVars == <<entry, exit_pt>>
uiVars == <<main_grid, main_path, current_grid, current_path, show_path,
            colour_index>>
outVars == <<choice, colour_presses>>

(***************************************************************************)
(* Bounds of the model.                                                    *)
(***************************************************************************)
\* build_maze calls one client process makes (SpecLib)
MaxCalls == 3
\* "new maze" commands in one interactive session (Spec)
MaxRegens == 2
\* seeds a client passes: 0 .. NumSeeds - 1
NumSeeds == 2
\* distinct OS-entropy states the `random` module may start from
NumOsKeys == 2
\* largest width and height tried for the pattern computation (SpecPattern)
PatMaxDim == 12

(***************************************************************************)
(* Wall bit masks.                                                         *)
(***************************************************************************)
N == 1
E == 2
S == 4
W == 8
ALL_WALLS == 15

\* mask & wall # 0, for a single wall bit
HasWall(mask, wall) == (mask \div wall) % 2 = 1

\* mask &= ~wall
ClearWall(mask, wall) == IF HasWall(mask, wall) THEN mask - wall ELSE mask

\* MazeGenerator.DIRECTIONS, in dict (insertion) order: wall -> (dx, dy, opp)
DIRECTIONS ==
    << [wall |-> N, dx |-> 0,  dy |-> -1, opp |-> S],
       [wall |-> E, dx |-> 1,  dy |-> 0,  opp |-> W],
       [wall |-> S, dx |-> 0,  dy |-> 1,  opp |-> N],
       [wall |-> W, dx |-> -1, dy |-> 0,  opp |-> E] >>

Cells(w, h) == (0 .. w - 1) \X (0 .. h - 1)

InBounds(x, y, w, h) == 0 <= x /\ x < w /\ 0 <= y /\ y < h

\* [[ALL_WALLS for _ in range(width)] for _ in range(height)]
FreshGrid(w, h) == [c \in Cells(w, h) |-> ALL_WALLS]

(***************************************************************************)
(* Pattern reservation: MazeGenerator._get_42_pattern_cells               *)
(***************************************************************************)
pattern_offsets ==
    << <<0,0>>, <<2,0>>, <<0,1>>, <<2,1>>, <<0,2>>, <<1,2>>, <<2,2>>, <<2,3>>,
       <<2,4>>, <<4,0>>, <<5,0>>, <<6,0>>, <<6,1>>, <<4,2>>, <<5,2>>, <<6,2>>,
       <<4,3>>, <<4,4>>, <<5,4>>, <<6,4>> >>

\* a size test that takes `and` for `or`
TooSmall_And(w, h) == w < 9 /\ h < 7

\* if self.width < 9 or self.height < 7
TooSmall(w, h) == w < 9 \/ h < 7

Get42PatternCells(w, h) ==
    IF TooSmall(w, h) THEN {}
    ELSE LET start_x == (w - 7) \div 2
             start_y == (h - 5) \div 2
         IN  { <<start_x + pattern_offsets[i][1], start_y + pattern_offsets[i][2]>> :
                   i \in 1 .. Len(pattern_offsets) }

(***************************************************************************)
(* Optional values (Optional[int], Optional[str]): None is the empty       *)
(* sequence and a present value v is <<v>>.                                *)
(***************************************************************************)
None == <<>>
Some(v) == <<v>>

(***************************************************************************)
(* The module-level random generator.  Its state is the key it was last    *)
(* seeded with and the number of draws made since: random.seed(s) resets   *)
(* it to key s, no draws; at import it is seeded from OS entropy.  A state *)
(* with any = TRUE stands for OS entropy nobody observed: every draw is    *)
(* possible from it.                                                       *)
(***************************************************************************)
Seeds == 0 .. NumSeeds - 1
OsKeys == { 100 + i : i \in 1 .. NumOsKeys }
Unobserved == [any |-> TRUE, key |-> 100, n |-> 0]

\* the generator's output word for draw n of key k
Word(k, n) == ((k * 37 + 11) * (n + 5) + ((n * n) \div 3) * (k + 2) + (n \div 2)) % 1009

\* a seeding that sets the key and keeps the position in the stream
RandomSeed_KeepsPosition(r, s) == [r EXCEPT !.key = s]

\* random.seed(s)
RandomSeed(r, s) == [any |-> FALSE, key |-> s, n |-> 0]

\* random.choice(seq): the indices (1-based) it may return for a length
RandomChoice(r, len) ==
    IF r.any THEN 1 .. len
    ELSE { (Word(r.key, r.n) % len) + 1 }

\* the generator state after one draw
RandomAdvance(r) ==
    IF r.any THEN r ELSE [r EXCEPT !.n = @ + 1]

(***************************************************************************)
(* MazeGenerator.generate                                                  *)
(***************************************************************************)
\* a generator that forgets the pattern: visited = set()
PreVisited_Forgotten(pattern) == {}

\* visited = set(self.patern_cells)
PreVisited(pattern) == pattern

\* the first cell, in row-major order, that is not visited; (0, 0) if none
StartCell(w, h, vis) ==
    LET free == Cells(w, h) \ vis
    IN  IF free = {} THEN <<0, 0>>
        ELSE CHOOSE c \in free :
                 \A d \in free : c[2] * w + c[1] <= d[2] * w + d[1]

\* an off-by-one bounds test: 0 <= nx < width - 1
Unvisited_OffByOne(cx, cy, vis, w, h) ==
    SelectSeq(DIRECTIONS,
              LAMBDA d : /\ InBounds(cx + d.dx, cy + d.dy, w - 1, h)
                         /\ <<cx + d.dx, cy + d.dy>> \notin vis)

\* the `unvisited` list built for the cell on top of the stack
Unvisited(cx, cy, vis, w, h) ==
    SelectSeq(DIRECTIONS,
              LAMBDA d : /\ InBounds(cx + d.dx, cy + d.dy, w, h)
                         /\ <<cx + d.dx, cy + d.dy>> \notin vis)

Top(stk) == stk[Len(stk)]

\* a carve that clears the wall of the current cell only
CarveWalls_OneSided(g, cx, cy, d) ==
    [g EXCEPT ![<<cx, cy>>] = ClearWall(@, d.wall)]

\* self.grid[cy][cx] &= ~wall ; self.grid[ny][nx] &= ~opp
CarveWalls(g, cx, cy, d) ==
    LET g1 == [g EXCEPT ![<<cx, cy>>] = ClearWall(@, d.wall)]
    IN  [g1 EXCEPT ![<<cx + d.dx, cy + d.dy>>] = ClearWall(@, d.opp)]

\* MazeGenerator(width, height, seed) followed by the head of generate():
\* seeding, the pre-visited set, the start cell, the first push
GenerateBegin(s) ==
    LET pat   == Get42PatternCells(width, height)
        vis   == PreVisited(pat)
        start == StartCell(width, height, vis)
    IN  /\ seed' = s
        /\ grid' = FreshGrid(width, height)
        /\ patern_cells' = pat
        /\ rng' = IF s # None THEN RandomSeed(rng, s[1]) ELSE rng
        /\ visited' = vis \cup {start}
        /\ stack' = <<start>>
        /\ pc' = "generate"
        /\ calls' = calls + 1

\* one iteration of `while stack` that moves forward
Carve ==
    /\ pc = "generate"
    /\ stack # <<>>
    /\ LET cx  == Top(stack)[1]
           cy  == Top(stack)[2]
           unv == Unvisited(cx, cy, visited, width, height)
       IN  /\ unv # <<>>
           /\ \E i \in RandomChoice(rng, Len(unv)) :
                LET d == unv[i]
                IN  /\ grid' = CarveWalls(grid, cx, cy, d)
                    /\ visited' = visited \cup {<<cx + d.dx, cy + d.dy>>}
                    /\ stack' = Append(stack, <<cx + d.dx, cy + d.dy>>)
           /\ rng' = RandomAdvance(rng)
    /\ UNCHANGED <<cfgVars, endVars, uiVars, pc, caller, seed, patern_cells,
                   calls, first_grid, io_ok, bfs_path, pf_result, outVars>>

\* a pop that leaves the stack as it is
Pop_Keeps(stk) == stk

\* stack.pop(): the stack without its last cell
Pop(stk) == SubSeq(stk, 1, Len(stk) - 1)

\* one iteration of `while stack` at a dead end: stack.pop()
Backtrack ==
    /\ pc = "generate"
    /\ stack # <<>>
    /\ Unvisited(Top(stack)[1], Top(stack)[2], visited, width, height) = <<>>
    /\ stack' = Pop(stack)
    /\ UNCHANGED <<cfgVars, endVars, uiVars, pc, caller, seed, grid,
                   patern_cells, visited, rng, calls, first_grid, io_ok,
                   bfs_path, pf_result, outVars>>

\* generate() is about to `return self.grid`
Returning == pc = "generate" /\ stack = <<>>

(***************************************************************************)
(* hex_writer.solve_bfs                                                    *)
(***************************************************************************)
\* hex_writer.DIRECTIONS, in dict order: wall_bit -> (dx, dy, letter)
BFS_DIRECTIONS ==
    << [wall |-> N, dx |-> 0,  dy |-> -1, letter |-> "N"],
       [wall |-> E, dx |-> 1,  dy |-> 0,  letter |-> "E"],
       [wall |-> S, dx |-> 0,  dy |-> 1,  letter |-> "S"],
       [wall |-> W, dx |-> -1, dy |-> 0,  letter |-> "W"] >>

\* a step that moves when the wall bit is SET (the test inverted)
BfsStep_Inverted(st, g, w, h, cx, cy, path, d) ==
    IF ~HasWall(g[<<cx, cy>>], d.wall) THEN st
    ELSE IF /\ InBounds(cx + d.dx, cy + d.dy, w, h)
            /\ <<cx + d.dx, cy + d.dy>> \notin st.visited
         THEN [queue   |-> Append(st.queue,
                                  [x |-> cx + d.dx, y |-> cy + d.dy,
                                   path |-> Append(path, d.letter)]),
               visited |-> st.visited \cup {<<cx + d.dx, cy + d.dy>>}]
         ELSE st

\* a step that puts the neighbour at the front of the queue (appendleft)
BfsStep_Lifo(st, g, w, h, cx, cy, path, d) ==
    IF HasWall(g[<<cx, cy>>], d.wall) THEN st
    ELSE IF /\ InBounds(cx + d.dx, cy + d.dy, w, h)
            /\ <<cx + d.dx, cy + d.dy>> \notin st.visited
         THEN [queue   |-> << [x |-> cx + d.dx, y |-> cy + d.dy,
                               path |-> Append(path, d.letter)] >> \o st.queue,
               visited |-> st.visited \cup {<<cx + d.dx, cy + d.dy>>}]
         ELSE st

\* the body of `for wall_bit, (dx, dy, letter) in DIRECTIONS.items()` for one
\* direction d, from the dequeued (cx, cy, path); st is [queue, visited]
BfsStep(st, g, w, h, cx, cy, path, d) ==
    IF HasWall(g[<<cx, cy>>], d.wall) THEN st
    ELSE IF /\ InBounds(cx + d.dx, cy + d.dy, w, h)
            /\ <<cx + d.dx, cy + d.dy>> \notin st.visited
         THEN [queue   |-> Append(st.queue,
                                  [x |-> cx + d.dx, y |-> cy + d.dy,
                                   path |-> Append(path, d.letter)]),
               visited |-> st.visited \cup {<<cx + d.dx, cy + d.dy>>}]
         ELSE st

\* the `while queue` loop
RECURSIVE BfsLoop(_, _, _, _, _)
BfsLoop(g, w, h, ex, st) ==
    IF st.queue = <<>> THEN None
    ELSE LET cur  == Head(st.queue)
             st0  == [st EXCEPT !.queue = Tail(@)]
             st1  == BfsStep(st0, g, w, h, cur.x, cur.y, cur.path, BFS_DIRECTIONS[1])
             st2  == BfsStep(st1, g, w, h, cur.x, cur.y, cur.path, BFS_DIRECTIONS[2])
             st3  == BfsStep(st2, g, w, h, cur.x, cur.y, cur.path, BFS_DIRECTIONS[3])
             st4  == BfsStep(st3, g, w, h, cur.x, cur.y, cur.path, BFS_DIRECTIONS[4])
         IN  IF <<cur.x, cur.y>> = ex THEN Some(cur.path)
             ELSE BfsLoop(g, w, h, ex, st4)

\* solve_bfs(grid, entry, exit_pt): Some(path), or None when the queue empties
solve_bfs(g, w, h, en, ex) ==
    BfsLoop(g, w, h, ex,
            [queue   |-> << [x |-> en[1], y |-> en[2], path |-> <<>>] >>,
             visited |-> {en}])

\* write_maze_file's `if path is None: path = ""`
PathOrEmpty(p) == IF p = None THEN <<>> ELSE p[1]

(***************************************************************************)
(* maze_data.MazeData and pathfinder.Pathfinder.solve                      *)
(***************************************************************************)
\* MazeData.get_walls: the cell's mask, 15 outside the map
get_walls(g, w, h, x, y) ==
    IF InBounds(x, y, w, h) THEN g[<<x, y>>] ELSE 15

\* the `directions` list of solve(): (dx, dy, wall_bit, letter)
PF_DIRECTIONS ==
    << [dx |-> 0,  dy |-> -1, wall |-> 1, letter |-> "N"],
       [dx |-> 1,  dy |-> 0,  wall |-> 2, letter |-> "E"],
       [dx |-> 0,  dy |-> 1,  wall |-> 4, letter |-> "S"],
       [dx |-> -1, dy |-> 0,  wall |-> 8, letter |-> "W"] >>

\* solve() never tests bounds and get_walls gives 15 outside the map, so
\* the search may walk out of the map, where every cell lets it move in all
\* four directions: once outside it floods the unbounded plane and the queue
\* never empties.  The cells within Halo of the map are enough to decide
\* how the call ends: a shortest route around the map hugs it.
Halo == 1
InHalo(x, y, w, h) == InBounds(x + Halo, y + Halo, w + 2 * Halo, h + 2 * Halo)

\* the body of `for dx, dy, wall_bit, letter in directions` for one
\* direction d; st is [queue, visited, ret, outside], ret the value of a
\* `return new_path` already executed
PfStep(st, g, w, h, ex, cx, cy, path, d) ==
    IF st.ret # None THEN st
    ELSE IF ~HasWall(get_walls(g, w, h, cx, cy), d.wall) THEN st
    ELSE LET nx == cx + d.dx
             ny == cy + d.dy
         IN  IF <<nx, ny>> \in st.visited THEN st
             ELSE IF <<nx, ny>> = ex
                  THEN [st EXCEPT !.ret = Some(Append(path, d.letter))]
             ELSE IF ~InHalo(nx, ny, w, h) THEN st
             ELSE [st EXCEPT
                     !.queue   = Append(@, [x |-> nx, y |-> ny,
                                            path |-> Append(path, d.letter)]),
                     !.visited = @ \cup {<<nx, ny>>},
                     !.outside = @ \/ ~InBounds(nx, ny, w, h)]

\* the `while queue` loop; the result says how the call ends and with what
RECURSIVE PfLoop(_, _, _, _, _)
PfLoop(g, w, h, ex, st) ==
    IF st.ret # None THEN [how |-> "exit_found", ret |-> st.ret[1]]
    ELSE IF st.queue = <<>>
         THEN IF st.outside THEN [how |-> "never_returns", ret |-> <<>>]
              ELSE [how |-> "queue_empty", ret |-> <<>>]
    ELSE LET cur == Head(st.queue)
             st0 == [st EXCEPT !.queue = Tail(@)]
             st1 == PfStep(st0, g, w, h, ex, cur.x, cur.y, cur.path, PF_DIRECTIONS[1])
             st2 == PfStep(st1, g, w, h, ex, cur.x, cur.y, cur.path, PF_DIRECTIONS[2])
             st3 == PfStep(st2, g, w, h, ex, cur.x, cur.y, cur.path, PF_DIRECTIONS[3])
             st4 == PfStep(st3, g, w, h, ex, cur.x, cur.y, cur.path, PF_DIRECTIONS[4])
         IN  PfLoop(g, w, h, ex, st4)

\* Pathfinder(MazeData(g, w, h, en, ex)).solve()
PathfinderSolve(g, w, h, en, ex) ==
    IF en = ex THEN [how |-> "entry_is_exit", ret |-> <<>>]
    ELSE PfLoop(g, w, h, ex,
                [queue   |-> << [x |-> en[1], y |-> en[2], path |-> <<>>] >>,
                 visited |-> {en},
                 ret     |-> None,
                 outside |-> FALSE])

(***************************************************************************)
(* A client process that calls build_maze(config) any number of times,     *)
(* each call with its own SEED, ENTRY and EXIT (SpecLib).                  *)
(***************************************************************************)
\* grids on which the draws of an unobserved generator are all explored
ExhaustiveCells == 12

LibDims == { <<3, 3>>, <<4, 3>>, <<3, 4>>, <<9, 7>>, <<10, 8>> }

\* the ENTRY / EXIT cells tried: every cell of a small grid; on a larger
\* one two opposite corners, a reserved cell and a cell in a pocket of the
\* pattern
Endpoints(w, h) ==
    IF w * h <= ExhaustiveCells THEN Cells(w, h)
    ELSE LET ax == (w - 7) \div 2
             ay == (h - 5) \div 2
         IN  { <<0, 0>>, <<w - 1, h - 1>>, <<ax, ay>>, <<ax + 1, ay>> }

NoFirst == [s \in Seeds |-> None]

InitLib ==
    /\ \E d \in LibDims : width = d[1] /\ height = d[2]
    /\ rng \in (IF width * height <= ExhaustiveCells THEN {Unobserved} ELSE {})
               \cup { [any |-> FALSE, key |-> k, n |-> 0] : k \in OsKeys }
    /\ entry = None /\ exit_pt = None
    /\ pc = "idle" /\ caller = "client"
    /\ seed = None
    /\ grid = FreshGrid(width, height)
    /\ patern_cells = {}
    /\ visited = {} /\ stack = <<>>
    /\ main_grid = None /\ main_path = None
    /\ current_grid = None /\ current_path = None
    /\ show_path = FALSE /\ colour_index = 0
    /\ calls = 0
    /\ first_grid = NoFirst
    /\ io_ok = TRUE
    /\ bfs_path = None /\ pf_result = None
    /\ choice = None /\ colour_presses = 0

\* build_maze(config) is called: lines 27-35 up to the carving loop
ClientCall ==
    /\ pc = "idle"
    /\ calls < MaxCalls
    /\ \E s \in {None} \cup { Some(k) : k \in Seeds } : GenerateBegin(s)
    /\ entry' = None /\ exit_pt' = None
    /\ bfs_path' = None
    /\ UNCHANGED <<cfgVars, uiVars, caller, first_grid, io_ok, pf_result,
                   outVars>>

\* the history of seeded results, written when generate() returns
RecordFirst ==
    IF seed # None /\ first_grid[seed[1]] = None
    THEN [first_grid EXCEPT ![seed[1]] = Some(grid)]
    ELSE first_grid

\* generate() returns; build_maze reads ENTRY and EXIT and calls
\* write_maze_file, which solves and writes (or raises OSError)
ClientReturn ==
    /\ Returning
    /\ caller = "client"
    /\ \E en \in Endpoints(width, height), ex \in Endpoints(width, height) :
         /\ en # ex
         /\ entry' = en /\ exit_pt' = ex
         /\ bfs_path' = solve_bfs(grid, width, height, en, ex)
    /\ io_ok' \in BOOLEAN
    /\ first_grid' = RecordFirst
    /\ pc' = "idle"
    /\ UNCHANGED <<cfgVars, uiVars, caller, seed, grid, patern_cells, visited,
                   stack, rng, calls, pf_result, outVars>>

NextLib == ClientCall \/ Carve \/ Backtrack \/ ClientReturn

SpecLib == InitLib /\ [][NextLib]_vars

\* generate() runs on a single thread that nothing blocks or cancels: an
\* iteration of the carving loop that can run does run
SpecLibFair ==
    /\ SpecLib
    /\ WF_vars(Carve)
    /\ WF_vars(Backtrack)

(***************************************************************************)
(* The passage graph of a grid.                                            *)
(***************************************************************************)
\* the right and lower neighbours of a cell
East(c) == <<c[1] + 1, c[2]>>
South(c) == <<c[1], c[2] + 1>>

\* whether there is an opening between a cell and its right / lower
\* neighbour (a cleared wall bit on either side)
OpenEast(g, w, h, a) ==
    East(a) \in Cells(w, h) /\ (~HasWall(g[a], E) \/ ~HasWall(g[East(a)], W))
OpenSouth(g, w, h, a) ==
    South(a) \in Cells(w, h) /\ (~HasWall(g[a], S) \/ ~HasWall(g[South(a)], N))

\* the adjacent pairs of cells with an opening between them, each pair once
OpenPairs(g, w, h) ==
    { <<a, East(a)>> : a \in { c \in Cells(w, h) : OpenEast(g, w, h, c) } }
    \cup { <<a, South(a)>> : a \in { c \in Cells(w, h) : OpenSouth(g, w, h, c) } }

\* the cells one opening away from a set of cells, given the open pairs
Adjacent(pairs, cs) ==
    { p[2] : p \in { q \in pairs : q[1] \in cs } }
    \cup { p[1] : p \in { q \in pairs : q[2] \in cs } }

\* the connected component of a set of cells
RECURSIVE Component(_, _)
Component(pairs, cs) ==
    LET more == cs \cup Adjacent(pairs, cs)
    IN  IF more = cs THEN cs ELSE Component(pairs, more)

FreeCells == Cells(width, height) \ Get42PatternCells(width, height)

(***************************************************************************)
(* Claims checked under SpecLib.                                           *)
(***************************************************************************)
\* C1: the grid generate() returns is a perfect maze on the non-reserved
\* cells: they form one connected component of the passage graph and the
\* number of open pairs is the number of non-reserved cells minus one (so
\* no cycle), which is width * height - 1 when nothing is reserved.
C1_PerfectMaze ==
    Returning =>
        LET pairs == OpenPairs(grid, width, height)
        IN  /\ Cardinality(pairs) = Cardinality(FreeCells) - 1
            /\ \A c \in FreeCells : Component(pairs, {c}) = FreeCells
            /\ TooSmall(width, height) => Cardinality(pairs) = width * height - 1

\* generate() returns a grid that holds the 20-cell pattern
C1_Witness ==
    /\ Returning
    /\ Cardinality(patern_cells) = 20
    /\ Cardinality(OpenPairs(grid, width, height)) = width * height - 21

\* C2: in every state of generate() and in the grid it returns, every
\* reserved cell keeps the mask 15, no reserved cell is ever on the stack
\* (neither as the current cell nor as the chosen neighbour), and the start
\* cell is not reserved.
C2_ReservedUntouched ==
    LET pat == Get42PatternCells(width, height)
    IN  /\ \A c \in pat : grid[c] = ALL_WALLS
        /\ \A i \in 1 .. Len(stack) : stack[i] \notin pat
        /\ StartCell(width, height, pat) \notin pat

\* the carving has visited every cell around the pattern and is backing out
C2_Witness ==
    /\ pc = "generate"
    /\ patern_cells # {}
    /\ visited = Cells(width, height)
    /\ Len(stack) = 1

\* C3: in every state of generate(), walls are mirrored: a cell's east bit
\* is clear exactly when its right neighbour's west bit is clear, and its
\* south bit exactly when its lower neighbour's north bit is.
C3_WallsMirrored ==
    \A a \in Cells(width, height) :
        /\ East(a) \in Cells(width, height) =>
               (HasWall(grid[a], E) <=> HasWall(grid[East(a)], W))
        /\ South(a) \in Cells(width, height) =>
               (HasWall(grid[a], S) <=> HasWall(grid[South(a)], N))

\* in the middle of a carving, after walls were cleared in both directions
C3_Witness ==
    /\ pc = "generate"
    /\ Len(stack) >= 3
    /\ \E a \in Cells(width, height) : ~HasWall(grid[a], E)
    /\ \E a \in Cells(width, height) : ~HasWall(grid[a], S)

(***************************************************************************)
(* Replaying a path: display._path_cells moves N = y-1, E = x+1, S = y+1,  *)
(* W = x-1 from the entry.                                                 *)
(***************************************************************************)
\* the `moves` table of _path_cells, with the wall bit of each letter
Move(letter) ==
    CASE letter = "N" -> [dx |-> 0,  dy |-> -1, wall |-> N]
      [] letter = "E" -> [dx |-> 1,  dy |-> 0,  wall |-> E]
      [] letter = "S" -> [dx |-> 0,  dy |-> 1,  wall |-> S]
      [] letter = "W" -> [dx |-> -1, dy |-> 0,  wall |-> W]

\* the cell reached from c by the first k letters of a path
RECURSIVE Position(_, _, _)
Position(c, path, k) ==
    IF k = 0 THEN c
    ELSE LET p == Position(c, path, k - 1)
         IN  <<p[1] + Move(path[k]).dx, p[2] + Move(path[k]).dy>>

\* a walk from en along path stays in the grid, leaves no cell through a set
\* wall bit, and ends at ex
ValidWalk(g, w, h, en, ex, path) ==
    /\ \A k \in 0 .. Len(path) : Position(en, path, k) \in Cells(w, h)
    /\ \A k \in 1 .. Len(path) :
           ~HasWall(g[Position(en, path, k - 1)], Move(path[k]).wall)
    /\ Position(en, path, Len(path)) = ex

\* a build_maze call of the client has returned
ClientReturned == pc = "idle" /\ calls > 0

\* C5: for every grid generate() produced and every entry and exit for which
\* solve_bfs returned a path, walking the path letter by letter from the
\* entry never leaves the grid, never crosses a set wall bit of the cell
\* being left, and ends at the exit.
C5_PathIsValidWalk ==
    (ClientReturned /\ bfs_path # None) =>
        ValidWalk(grid, width, height, entry, exit_pt, bfs_path[1])

\* a path of at least four letters was returned on a grid with the pattern
C5_Witness ==
    /\ ClientReturned
    /\ bfs_path # None
    /\ Len(bfs_path[1]) >= 4
    /\ patern_cells # {}

\* C6: an unseeded generate() never runs on a PRNG state that an earlier
\* seeded call left behind (the PRNG state of a call is local to it).
C6_UnseededReadsNoEarlierSeed ==
    (pc = "generate" /\ seed = None) => (rng.any \/ rng.key \in OsKeys)

\* C7: a seeded generate() returns the grid that the first generate() with
\* that seed returned, whatever calls ran in between.
C7_SeededRunsAgree ==
    (Returning /\ seed # None /\ first_grid[seed[1]] # None) =>
        grid = first_grid[seed[1]][1]

\* a seed is used for the second time, after a call with another seed
C7_Witness ==
    /\ Returning
    /\ seed # None
    /\ first_grid[seed[1]] # None
    /\ \E s \in Seeds : s # seed[1] /\ first_grid[s] # None
    /\ calls = 3

(***************************************************************************)
(* The two solvers as functions of an arbitrary grid (SpecBfs): the grid,  *)
(* entry and exit are drawn by Init, and the actions call the solvers.     *)
(***************************************************************************)
\* every 2 x 2 grid over masks that realise each combination of the wall
\* bits between its cells
MASKS_2x2 == {0, 15, 6, 9, 3, 12, 5, 10}
\* every 3 x 3 grid whose cells are fully open or fully walled
MASKS_3x3 == {0, 15}

InitBfs ==
    /\ \/ /\ width = 2 /\ height = 2
          /\ grid \in [Cells(2, 2) -> MASKS_2x2]
       \/ /\ width = 3 /\ height = 3
          /\ grid \in [Cells(3, 3) -> MASKS_3x3]
    /\ entry \in Cells(width, height)
    /\ exit_pt \in Cells(width, height)
    /\ pc = "input" /\ caller = "client"
    /\ seed = None
    /\ patern_cells = {}
    /\ visited = {} /\ stack = <<>>
    /\ rng = Unobserved
    /\ main_grid = None /\ main_path = None
    /\ current_grid = None /\ current_path = None
    /\ show_path = FALSE /\ colour_index = 0
    /\ calls = 0
    /\ first_grid = NoFirst
    /\ io_ok = TRUE
    /\ bfs_path = None /\ pf_result = None
    /\ choice = None /\ colour_presses = 0

\* path = solve_bfs(grid, entry, exit_pt)
CallSolveBfs ==
    /\ pc = "input"
    /\ bfs_path' = solve_bfs(grid, width, height, entry, exit_pt)
    /\ pc' = "bfs_returned"
    /\ UNCHANGED <<cfgVars, endVars, uiVars, caller, seed, grid, patern_cells,
                   visited, stack, rng, calls, first_grid, io_ok, pf_result,
                   outVars>>

\* Pathfinder(MazeData(grid, width, height, entry, exit_pt)).solve()
CallPathfinderSolve ==
    /\ pc = "bfs_returned"
    /\ pf_result' = Some(PathfinderSolve(grid, width, height, entry, exit_pt))
    /\ pc' = "solved"
    /\ UNCHANGED <<cfgVars, endVars, uiVars, caller, seed, grid, patern_cells,
                   visited, stack, rng, calls, first_grid, io_ok, bfs_path,
                   outVars>>

NextBfs == CallSolveBfs \/ CallPathfinderSolve

SpecBfs == InitBfs /\ [][NextBfs]_vars

(***************************************************************************)
(* Claims checked under SpecBfs.                                           *)
(***************************************************************************)
\* the cells one letter away from cell a: a letter is allowed when its wall
\* bit is clear in the cell being left and it leads to a cell of the grid
Steps(g, w, h, a) ==
    { <<a[1] + Move(d).dx, a[2] + Move(d).dy>> :
        d \in { l \in {"N", "E", "S", "W"} : ~HasWall(g[a], Move(l).wall) } }
    \cap Cells(w, h)

\* the cells in which a walk of at most k letters can end, given the cells
\* `seen` in which shorter walks end and, among them, the `frontier` of those
\* found last
RECURSIVE WalkEnds(_, _, _, _, _, _)
WalkEnds(g, w, h, seen, frontier, k) ==
    IF k = 0 \/ frontier = {} THEN seen
    ELSE LET nxt == UNION { Steps(g, w, h, a) : a \in frontier } \ seen
         IN  WalkEnds(g, w, h, seen \cup nxt, nxt, k - 1)

\* C4: when solve_bfs returns a path, no walk from entry to exit through
\* open passages has fewer letters: the exit is not among the cells that
\* walks shorter than the path end in.
C4_BfsPathIsShortest ==
    (pc = "bfs_returned" /\ bfs_path # None /\ Len(bfs_path[1]) > 0) =>
        exit_pt \notin WalkEnds(grid, width, height, {entry}, {entry},
                                Len(bfs_path[1]) - 1)

\* solve_bfs returned a path of 4 letters where longer walks exist too
C4_Witness ==
    /\ pc = "bfs_returned"
    /\ bfs_path # None
    /\ Len(bfs_path[1]) = 4
    /\ grid = [c \in Cells(3, 3) |-> 0]

\* C8: when the queue empties without reaching the exit, each solver
\* returns a value different from the empty path it returns when entry
\* equals exit.
C8_UnreachableIsDistinct ==
    pc = "solved" =>
        /\ bfs_path = None => bfs_path # solve_bfs(grid, width, height, entry, entry)
        /\ pf_result[1].how = "queue_empty" =>
               pf_result[1].ret # PathfinderSolve(grid, width, height, entry, entry).ret

\* C13: Pathfinder.solve leaves a cell only through a clear wall bit and
\* only towards a cell of the grid: it puts no coordinate outside the grid
\* on its queue (so it cannot end up flooding the plane around the map), and
\* a path it returns is a walk in the grid from entry to exit that crosses
\* no set wall bit.
C13_PathfinderRespectsWalls ==
    pc = "solved" =>
        /\ pf_result[1].how # "never_returns"
        /\ pf_result[1].how = "exit_found" =>
               ValidWalk(grid, width, height, entry, exit_pt, pf_result[1].ret)

(***************************************************************************)
(* The pattern computation as a function of the dimensions (SpecPattern):  *)
(* Init draws the dimensions and the state of the process, and the action  *)
(* constructs a MazeGenerator.                                             *)
(***************************************************************************)
InitPattern ==
    /\ width \in 3 .. PatMaxDim
    /\ height \in 3 .. PatMaxDim
    /\ rng \in {Unobserved} \cup { [any |-> FALSE, key |-> k, n |-> 0] : k \in Seeds }
    /\ entry = None /\ exit_pt = None
    /\ pc = "new" /\ caller = "client"
    /\ seed = None
    /\ grid = None
    /\ patern_cells = {}
    /\ visited = {} /\ stack = <<>>
    /\ main_grid = None /\ main_path = None
    /\ current_grid = None /\ current_path = None
    /\ show_path = FALSE /\ colour_index = 0
    /\ calls = 0
    /\ first_grid = NoFirst
    /\ io_ok = TRUE
    /\ bfs_path = None /\ pf_result = None
    /\ choice = None /\ colour_presses = 0

\* MazeGenerator(width, height, seed): __init__
Construct ==
    /\ pc = "new"
    /\ seed' \in {None} \cup { Some(k) : k \in Seeds }
    /\ grid' = FreshGrid(width, height)
    /\ patern_cells' = Get42PatternCells(width, height)
    /\ pc' = "constructed"
    /\ UNCHANGED <<cfgVars, endVars, uiVars, caller, visited, stack, rng,
                   calls, first_grid, io_ok, bfs_path, pf_result, outVars>>

NextPattern == Construct

SpecPattern == InitPattern /\ [][NextPattern]_vars

\* C9: the reserved set is empty when width < 9 or height < 7; otherwise it
\* is 20 distinct cells, all in the grid, namely the offsets of the table
\* added to the anchor ((width-7)//2, (height-5)//2); whatever the seed and
\* the PRNG state of the process.
C9_PatternOfDimensions ==
    pc = "constructed" =>
        IF width < 9 \/ height < 7 THEN patern_cells = {}
        ELSE /\ Cardinality(patern_cells) = 20
             /\ patern_cells \subseteq Cells(width, height)
             /\ \A i \in 1 .. 20 :
                    << (width - 7) \div 2 + pattern_offsets[i][1],
                       (height - 5) \div 2 + pattern_offsets[i][2] >> \in patern_cells

\* a generator was constructed for a grid that holds the pattern off-centre
C9_Witness ==
    /\ pc = "constructed"
    /\ width = 10 /\ height = 8
    /\ Cardinality(patern_cells) = 20
    /\ <<1, 1>> \in patern_cells

(***************************************************************************)
(* display.py: what render_maze prints.  A box-drawing character is the    *)
(* set of strokes it draws from the centre of its cell (its Unicode name:  *)
(* LIGHT UP AND LEFT is {"up", "left"}); a cell interior is the name of    *)
(* the two-character marker printed in it.  The horizontal and vertical    *)
(* wall segments between the corners are the cells' N, W, E and S bits     *)
(* printed as they are, and are left out of the frame.                     *)
(***************************************************************************)
\* CORNER: key -> character, in the order of the table (keys 0 .. 15)
CORNER ==
    << {},                              \* 0b0000 blank
       {"left"},                        \* 0b0001 LIGHT LEFT
       {"right"},                       \* 0b0010 LIGHT RIGHT
       {"left", "right"},               \* 0b0011 LIGHT HORIZONTAL
       {"up"},                          \* 0b0100 LIGHT UP
       {"up", "left"},                  \* 0b0101 LIGHT UP AND LEFT
       {"up", "right"},                 \* 0b0110 LIGHT UP AND RIGHT
       {"up", "left", "right"},         \* 0b0111 LIGHT UP AND HORIZONTAL
       {"down"},                        \* 0b1000 LIGHT DOWN
       {"down", "left"},                \* 0b1001 LIGHT DOWN AND LEFT
       {"down", "right"},               \* 0b1010 LIGHT DOWN AND RIGHT
       {"down", "left", "right"},       \* 0b1011 LIGHT DOWN AND HORIZONTAL
       {"up", "down"},                  \* 0b1100 LIGHT VERTICAL
       {"up", "down", "left"},          \* 0b1101 LIGHT VERTICAL AND LEFT
       {"up", "down", "right"},         \* 0b1110 LIGHT VERTICAL AND RIGHT
       {"up", "down", "left", "right"}  \* 0b1111 LIGHT VERTICAL AND HORIZONTAL
    >>

\* the loop of _path_cells from letter i on, standing on cell c
RECURSIVE PathCellsFrom(_, _, _)
PathCellsFrom(c, path, i) ==
    IF i > Len(path) THEN {c}
    ELSE {c} \cup PathCellsFrom(<<c[1] + Move(path[i]).dx, c[2] + Move(path[i]).dy>>,
                                path, i + 1)

\* _path_cells(path, entry)
path_cells(path, en) == PathCellsFrom(en, path, 1)

\* the local function has(x, y, wall) of _corner_char
has(g, w, h, x, y, wall) == InBounds(x, y, w, h) /\ HasWall(g[<<x, y>>], wall)

Bit(b) == IF b THEN 1 ELSE 0

\* the key _corner_char computes for corner (cx, cy)
corner_key(g, w, h, cx, cy) ==
    LET arm_n == has(g, w, h, cx - 1, cy - 1, S) \/ has(g, w, h, cx, cy - 1, S)
        arm_s == has(g, w, h, cx - 1, cy, N) \/ has(g, w, h, cx, cy, N)
        arm_w == has(g, w, h, cx - 1, cy - 1, E) \/ has(g, w, h, cx - 1, cy, E)
        arm_e == has(g, w, h, cx, cy - 1, W) \/ has(g, w, h, cx, cy, W)
    IN  8 * Bit(arm_n) + 4 * Bit(arm_e) + 2 * Bit(arm_s) + Bit(arm_w)

\* _corner_char(grid, cx, cy, wall_colour), without the colour
corner_char(g, w, h, cx, cy) == CORNER[corner_key(g, w, h, cx, cy) + 1]

\* the corners render_maze asks _corner_char for
Corners(w, h) == (0 .. w) \X (0 .. h)

\* render_maze: the set `visited` of cells to highlight
Highlighted(path, en, show) ==
    IF show /\ path # <<>> THEN path_cells(path, en) ELSE {}

\* an interior that tests the reserved cells before the entry and exit
Interior_PatternFirst(x, y, en, ex, show, vis, pat) ==
    IF <<x, y>> \in pat THEN "pattern"
    ELSE IF <<x, y>> = en THEN "entry"
    ELSE IF <<x, y>> = ex THEN "exit"
    ELSE IF show /\ <<x, y>> \in vis THEN "path"
    ELSE "empty"

\* render_maze: the interior of cell (x, y)
Interior(x, y, en, ex, show, vis, pat) ==
    IF <<x, y>> = en THEN "entry"
    ELSE IF <<x, y>> = ex THEN "exit"
    ELSE IF show /\ <<x, y>> \in vis THEN "path"
    ELSE IF <<x, y>> \in pat THEN "pattern"
    ELSE "empty"

\* render_maze(grid, entry, exit_pt, path, show_path, WALL_COLOURS[ci], pat)
render_maze(g, w, h, en, ex, path, show, ci, pat) ==
    LET vis == Highlighted(path, en, show)
    IN  [ interior |-> [c \in Cells(w, h) |->
                            Interior(c[1], c[2], en, ex, show, vis, pat)],
          corner   |-> [c \in Corners(w, h) |-> corner_char(g, w, h, c[1], c[2])],
          colour   |-> ci ]

(***************************************************************************)
(* The program (Spec): a_maze_ing.main builds the first maze and hands it  *)
(* to display.run_display, whose menu loop regenerates through the         *)
(* `regenerate` closure of main.                                           *)
(***************************************************************************)
ProgDims == { <<3, 3>>, <<9, 7>> }

\* validate_config hands build_maze no SEED key: config.get("SEED") is None
ConfigSeed == None

\* len(WALL_COLOURS)
NumColours == 7

\* how many colour commands a run of the model handles
MaxPresses == 8

\* the characters str.strip() removes, as far as RawLines has them
Whitespace == {" "}

RECURSIVE LStrip(_)
LStrip(line) ==
    IF line # <<>> /\ Head(line) \in Whitespace THEN LStrip(Tail(line)) ELSE line

RECURSIVE RStrip(_)
RStrip(line) ==
    IF line # <<>> /\ line[Len(line)] \in Whitespace
    THEN RStrip(SubSeq(line, 1, Len(line) - 1))
    ELSE line

\* str.strip(), on a line given as the sequence of its characters
Strip(line) == RStrip(LStrip(line))

\* the lines input() returns in the model
RawLines ==
    { <<"1">>, <<"2">>, <<"3">>, <<"4">>,
      <<" ", "2">>, <<"3", " ">>, <<" ", "1", " ">>,
      <<>>, <<" ">>, <<"2", " ", "2">>, <<"q">> }

\* the lines whose stripped text is `text`
LinesFor(text) == { line \in RawLines : Strip(line) = text }

\* the lines no branch of the if / elif chain takes
OtherLines ==
    { line \in RawLines :
          Strip(line) \notin { <<"1">>, <<"2">>, <<"3">>, <<"4">> } }

\* the top of `while True`: what render_maze prints while the loop waits
\* for input, from the locals of run_display as they are
Screen ==
    render_maze(current_grid, width, height, entry, exit_pt, current_path,
                show_path, colour_index, Get42PatternCells(width, height))

\* the ENTRY / EXIT cells of the configurations run: on a grid without the
\* pattern three corners and an inner cell, otherwise those of Endpoints
ProgEndpoints(w, h) ==
    IF TooSmall(w, h)
    THEN { <<0, 0>>, <<w - 1, 0>>, <<1, 1>>, <<w - 1, h - 1>> }
    ELSE Endpoints(w, h)

Init ==
    /\ \E d \in ProgDims : width = d[1] /\ height = d[2]
    /\ entry \in ProgEndpoints(width, height)
    /\ exit_pt \in ProgEndpoints(width, height)
    /\ entry # exit_pt
    /\ rng \in { [any |-> FALSE, key |-> k, n |-> 0] : k \in OsKeys }
    /\ pc = "start" /\ caller = "main"
    /\ seed = None
    /\ grid = None
    /\ patern_cells = {}
    /\ visited = {} /\ stack = <<>>
    /\ main_grid = None /\ main_path = None
    /\ current_grid = None /\ current_path = None
    /\ show_path = FALSE /\ colour_index = 0
    /\ calls = 0
    /\ first_grid = NoFirst
    /\ io_ok = TRUE
    /\ bfs_path = None /\ pf_result = None
    /\ choice = None /\ colour_presses = 0

\* main: grid, path = build_maze(config), up to the carving loop
MainBuildMaze ==
    /\ pc = "start"
    /\ GenerateBegin(ConfigSeed)
    /\ UNCHANGED <<cfgVars, endVars, uiVars, caller, first_grid, io_ok,
                   bfs_path, pf_result, outVars>>

\* build_maze returns to main (or raises and main exits with status 1);
\* main calls run_display, which sets its locals and shows the menu
MainReturn ==
    /\ Returning
    /\ caller = "main"
    /\ bfs_path' = solve_bfs(grid, width, height, entry, exit_pt)
    /\ io_ok' \in BOOLEAN
    /\ IF io_ok'
       THEN /\ main_grid' = grid
            /\ main_path' = PathOrEmpty(bfs_path')
            /\ current_grid' = grid
            /\ current_path' = PathOrEmpty(bfs_path')
            /\ show_path' = FALSE
            /\ colour_index' = 0
            /\ pc' = "menu"
       ELSE /\ pc' = "exit"
            /\ UNCHANGED uiVars
    /\ first_grid' = RecordFirst
    /\ UNCHANGED <<cfgVars, endVars, caller, seed, grid, patern_cells, visited,
                   stack, rng, calls, pf_result, choice, colour_presses>>

\* choice "1": cb() calls build_maze({**config, "SEED": None})
ChoiceRegenerate ==
    /\ pc = "menu"
    /\ calls <= MaxRegens
    /\ \E line \in LinesFor(<<"1">>) : choice' = Some(Strip(line))
    /\ caller' = "regenerate"
    /\ GenerateBegin(None)
    /\ UNCHANGED <<cfgVars, endVars, uiVars, first_grid, io_ok, bfs_path,
                   pf_result, colour_presses>>

\* what the closure hands back when build_maze raised: main's grid and path
Regenerate_Stale(ok, new_grid, new_path) == <<main_grid, main_path>>

\* the `regenerate` closure: the new pair, or main's grid and path when
\* build_maze raised
Regenerate(ok, new_grid, new_path) ==
    IF ok THEN <<new_grid, new_path>> ELSE <<main_grid, main_path>>

\* build_maze returns (or raises) inside regenerate; run_display assigns
\* current_grid, current_path = cb() and show_path = False
RegenerateReturn ==
    /\ Returning
    /\ caller = "regenerate"
    /\ bfs_path' = solve_bfs(grid, width, height, entry, exit_pt)
    /\ io_ok' \in BOOLEAN
    /\ current_grid' = Regenerate(io_ok', grid, PathOrEmpty(bfs_path'))[1]
    /\ current_path' = Regenerate(io_ok', grid, PathOrEmpty(bfs_path'))[2]
    /\ show_path' = FALSE
    /\ first_grid' = RecordFirst
    /\ pc' = "menu"
    /\ UNCHANGED <<cfgVars, endVars, caller, seed, grid, patern_cells, visited,
                   stack, rng, main_grid, main_path, colour_index, calls,
                   pf_result, choice, colour_presses>>

\* show_path = not show_path
TogglePath(show) == ~show

\* choice "2"
ChoiceTogglePath ==
    /\ pc = "menu"
    /\ \E line \in LinesFor(<<"2">>) : choice' = Some(Strip(line))
    /\ show_path' = TogglePath(show_path)
    /\ UNCHANGED <<cfgVars, endVars, pc, caller, seed, grid, patern_cells,
                   visited, stack, rng, main_grid, main_path, current_grid,
                   current_path, colour_index, calls, first_grid, io_ok,
                   bfs_path, pf_result, colour_presses>>

\* a colour command that leaves the palette after its last colour
NextColour_NoWrap(ci) == ci + 1

\* (colour_index + 1) % len(WALL_COLOURS)
NextColour(ci) == (ci + 1) % NumColours

\* choice "3"
ChoiceColour ==
    /\ pc = "menu"
    /\ colour_presses < MaxPresses
    /\ \E line \in LinesFor(<<"3">>) : choice' = Some(Strip(line))
    /\ colour_index' = NextColour(colour_index)
    /\ colour_presses' = colour_presses + 1
    /\ UNCHANGED <<cfgVars, endVars, pc, caller, seed, grid, patern_cells,
                   visited, stack, rng, main_grid, main_path, current_grid,
                   current_path, show_path, calls, first_grid, io_ok, bfs_path,
                   pf_result>>

\* choice "4", or EOFError / KeyboardInterrupt from input(), which leaves
\* `choice` as it was: sys.exit(0)
ChoiceQuit ==
    /\ pc = "menu"
    /\ \/ \E line \in LinesFor(<<"4">>) : choice' = Some(Strip(line))
       \/ choice' = choice
    /\ pc' = "exit"
    /\ UNCHANGED <<cfgVars, endVars, uiVars, caller, seed, grid, patern_cells,
                   visited, stack, rng, calls, first_grid, io_ok, bfs_path,
                   pf_result, colour_presses>>

\* any other input: no branch is taken and the loop draws the frame again
ChoiceOther ==
    /\ pc = "menu"
    /\ \E line \in OtherLines : choice' = Some(Strip(line))
    /\ UNCHANGED <<cfgVars, endVars, uiVars, pc, caller, seed, grid,
                   patern_cells, visited, stack, rng, calls, first_grid, io_ok,
                   bfs_path, pf_result, colour_presses>>

Next ==
    \/ MainBuildMaze
    \/ Carve
    \/ Backtrack
    \/ MainReturn
    \/ ChoiceRegenerate
    \/ RegenerateReturn
    \/ ChoiceTogglePath
    \/ ChoiceColour
    \/ ChoiceQuit
    \/ ChoiceOther

Spec == Init /\ [][Next]_vars

(***************************************************************************)
(* Claims checked under Spec.                                              *)
(***************************************************************************)
\* C10: the regenerate command runs a fresh unseeded generation, and when
\* it comes back the current grid and path are the pair that generation and
\* solve_bfs produced, the show-path flag is off whatever it was, and the
\* colour index is what it was.
C10_RegenerateReplaces ==
    [][ /\ (pc = "menu" /\ pc' = "generate") =>
               /\ seed' = None
               /\ grid' = FreshGrid(width, height)
               /\ colour_index' = colour_index
        /\ (Returning /\ caller = "regenerate" /\ pc' = "menu") =>
               /\ show_path' = FALSE
               /\ colour_index' = colour_index
               /\ io_ok' =>
                      /\ current_grid' = grid
                      /\ current_path' =
                             PathOrEmpty(solve_bfs(grid, width, height, entry, exit_pt))
      ]_vars

\* back at the menu after a regeneration that replaced the first maze, with
\* a colour other than the first selected
C10_Witness ==
    /\ pc = "menu"
    /\ caller = "regenerate"
    /\ io_ok
    /\ current_grid = grid
    /\ current_grid # main_grid
    /\ current_path # main_path
    /\ show_path = FALSE
    /\ colour_index = 3

\* the part of the state render_maze draws from
renderState == <<current_grid, current_path, show_path, colour_index>>

\* the loop took the line whose stripped text is `text` from the menu and is
\* back at the menu
Handled(text) == pc = "menu" /\ pc' = "menu" /\ choice' = Some(text)

\* input() returned a line whose stripped text is `text`, other than the
\* line before it
Took(text) == pc = "menu" /\ choice' # choice /\ choice' = Some(text)

\* C11: in the interactive loop an input that is none of "1".."4" changes
\* neither grid, path, show-path flag nor colour index and the loop is back
\* at the menu, which it draws from that unchanged state; the toggle command
\* flips the show-path flag and changes nothing else; the colour command
\* changes only the colour index; the colour index is always within
\* 0 .. palette size - 1 and is back at its starting value whenever the
\* number of colour commands handled is a multiple of the palette size.
C11_MenuFrameEffects ==
    [][ /\ colour_index' \in 0 .. NumColours - 1
        /\ (colour_presses' % NumColours = 0 => colour_index' = 0)
        /\ \A line \in OtherLines :
               /\ Took(Strip(line)) => pc' = "menu"
               /\ Handled(Strip(line)) => UNCHANGED renderState
        /\ Handled(<<"2">>) =>
               /\ show_path' = ~show_path
               /\ UNCHANGED <<current_grid, current_path, colour_index>>
        /\ Handled(<<"3">>) =>
               /\ colour_index' # colour_index
               /\ UNCHANGED <<current_grid, current_path, show_path>>
      ]_vars

\* after a regeneration and a full turn of the palette, with the path
\* shown, an unrecognised line was the last input
C11_Witness ==
    /\ pc = "menu"
    /\ calls = 2
    /\ colour_presses = NumColours
    /\ colour_index = 0
    /\ show_path
    /\ choice = Some(<<"2", " ", "2">>)

\* the cells of the walk that replays current_path from the entry
WalkCells == { Position(entry, current_path, k) : k \in 0 .. Len(current_path) }

\* C12: whenever the loop has drawn the maze, every cell interior shows
\* exactly one overlay, the first that applies of: entry marker on the entry
\* cell, exit marker on the exit cell, path highlight when the show-path
\* flag is set and the cell is on the walk replayed from the entry, reserved
\* marker on a cell of the pattern, empty otherwise.  So an entry or exit
\* cell shows its marker also when it is reserved or on the path, and with
\* the flag off no cell shows the path highlight.
C12_OverlayPriority ==
    pc = "menu" =>
        LET walk == WalkCells
            shown == Screen.interior
        IN  /\ DOMAIN shown = Cells(width, height)
            /\ \A c \in Cells(width, height) :
                   shown[c] =
                       IF c = entry THEN "entry"
                       ELSE IF c = exit_pt THEN "exit"
                       ELSE IF show_path /\ c \in walk THEN "path"
                       ELSE IF c \in patern_cells THEN "pattern"
                       ELSE "empty"
            /\ ~show_path => \A c \in Cells(width, height) : shown[c] # "path"

\* the path is shown on a grid that holds the pattern: some cell shows the
\* highlight, some the reserved marker, and the exit, on the walk, its own
C12_Witness ==
    /\ pc = "menu"
    /\ show_path
    /\ exit_pt \in WalkCells
    /\ Screen.interior[exit_pt] = "exit"
    /\ \E c \in Cells(width, height) : Screen.interior[c] = "path"
    /\ \E c \in Cells(width, height) : Screen.interior[c] = "pattern"

\* C16: when build_maze raises inside the regenerate callback (the output
\* file could not be written), the loop goes on with the grid and path that
\* were current just before the attempt, however many regenerations
\* succeeded before it.
C16_FailedRegenerationKeepsCurrent ==
    [][ (Returning /\ caller = "regenerate" /\ ~io_ok') =>
            /\ pc' = "menu"
            /\ current_grid' = current_grid
            /\ current_path' = current_path
      ]_vars

\* a wall segment lies on the grid edge that leaves corner (cx, cy) in the
\* direction dir: one of the up to two cells sharing that edge has its bit
\* for the edge set
EdgeWall(g, w, h, cx, cy, dir) ==
    CASE dir = "up"    -> has(g, w, h, cx - 1, cy - 1, E) \/ has(g, w, h, cx, cy - 1, W)
      [] dir = "right" -> has(g, w, h, cx, cy - 1, S) \/ has(g, w, h, cx, cy, N)
      [] dir = "down"  -> has(g, w, h, cx - 1, cy, E) \/ has(g, w, h, cx, cy, W)
      [] dir = "left"  -> has(g, w, h, cx - 1, cy - 1, S) \/ has(g, w, h, cx - 1, cy, N)

\* C14: in every frame drawn, the character at each corner of the
\* (width + 1) x (height + 1) lattice has a stroke up, right, down or left
\* exactly when a wall segment lies on the grid edge leaving the corner in
\* that direction; key 0 is the blank and key 15 the full cross.
C14_CornerStrokesMatchWalls ==
    /\ CORNER[1] = {}
    /\ CORNER[16] = {"up", "right", "down", "left"}
    /\ pc = "menu" =>
           \A c \in Corners(width, height) :
               \A dir \in {"up", "right", "down", "left"} :
                   dir \in Screen.corner[c]
                       <=> EdgeWall(current_grid, width, height, c[1], c[2], dir)

(***************************************************************************)
(* Claims checked under SpecLibFair.                                       *)
(***************************************************************************)
\* an iteration of the carving loop, or the head of generate()
LoopIteration == pc = "generate" /\ pc' = "generate"
GenerateHead == pc # "generate" /\ pc' = "generate"

\* C15: on every grid, under every sequence of random choices, the carving
\* loop of generate() ends with the stack empty, in a build_maze call with
\* a seed as in one without (a regeneration is one with SEED None); when
\* the loop ends every non-reserved cell is marked visited; and a cell is
\* pushed exactly once: the head of generate() pushes the unvisited start
\* cell, an iteration either pops or pushes one cell that is in the grid,
\* not reserved and not yet visited, marking it visited, and no cell is
\* marked visited without being pushed.
C15_GenerateTerminates ==
    /\ (pc = "generate") ~> Returning
    /\ [](Returning => /\ FreeCells \subseteq visited
                       /\ visited \subseteq Cells(width, height))
    /\ [][ /\ GenerateHead =>
                  /\ Len(stack') = 1
                  /\ stack'[1] \in FreeCells
                  /\ visited' = patern_cells' \cup {stack'[1]}
           /\ LoopIteration =>
                  \/ /\ Len(stack') = Len(stack) - 1
                     /\ visited' = visited
                  \/ /\ stack' = Append(stack, Top(stack'))
                     /\ Top(stack') \in FreeCells \ visited
                     /\ visited' = visited \cup {Top(stack')}
         ]_vars

\* an unseeded build_maze call, not the first of the process, on a grid
\* that holds the pattern: its carving loop ended with every cell visited
C15_Witness ==
    /\ Returning
    /\ calls = 2
    /\ seed = None
    /\ Cardinality(patern_cells) = 20
    /\ visited = Cells(width, height)

====
